---- MODULE Spec2Model ----
(***************************************************************************)
(* Trade document analyzer: the App component's state and handlers.        *)
(* The repository holds two revisions of the component, src/index.tsx and  *)
(* src/unnamed/part_000; `variant` says which one is running.              *)
(*                                                                         *)
(* JavaScript is single threaded: a handler, and each continuation of the  *)
(* async handleAnalyze between two awaits, is one atomic step.  React      *)
(* flushes the state updates of a discrete event before the next event is  *)
(* dispatched, so a handler's closure holds the state current at the       *)
(* moment it is invoked; handleAnalyze keeps that closure for its whole    *)
(* run.                                                                    *)
(***************************************************************************)
EXTENDS Naturals, Sequences, FiniteSets

VARIABLES
  variant,        \* which revision of App is mounted
  API_KEY,        \* process.env.API_KEY
  mounted,        \* FALSE when rendering App threw
  ciFile, plFile, blFile,
  loading, statusMessage, result, error, copyButtonText,
  runs,           \* handleAnalyze invocations suspended at an await, oldest first
  timers,         \* pending setTimeout callbacks of handleCopy
  clipboard       \* last text given to navigator.clipboard.writeText

vars == <<variant, API_KEY, mounted, ciFile, plFile, blFile, loading,
          statusMessage, result, error, copyButtonText, runs, timers,
          clipboard>>

-----------------------------------------------------------------------------
(* Bounds *)
MaxRuns == 2
MaxTimers == 2

-----------------------------------------------------------------------------
(* Values *)
Variants == {"index.tsx", "part_000"}
null == "null"
undefined == "undefined"
Files == {"a.pdf", "b.png"}
Slots == {"ci", "pl", "bl"}
Texts == {"t1", "t2"}

Falsy(x) == x \in {"", null, undefined}
Truthy(x) == ~Falsy(x)

FileType(f) == IF f = "a.pdf" THEN "application/pdf" ELSE "image/png"
FileContent(f) == <<"bytes", f>>

Keys == {"key", "", undefined}

(* The closure of a render: the three slots by role. *)
Closure == [ci |-> ciFile, pl |-> plFile, bl |-> blFile]

(* Messages *)
NoFileMessage ==
  IF variant = "index.tsx"
  THEN "Please upload at least one document."
  ELSE "Please upload at least one document to begin analysis."
KeyMissingMessage ==
  "API Key is missing. Please check your environment configuration."
ConfigurationErrorMessage ==
  "Configuration Error: The API Key is not being correctly passed to the application. Check your Vercel Environment Variables."
EmptyResponseMessage ==
  "The model returned an empty response. Please try again with clearer documents."
UnexpectedMessage ==
  IF variant = "index.tsx"
  THEN "An unexpected error occurred. Please try again."
  ELSE "An unexpected error occurred."
KeyMustBeSet == "An API Key must be set when running in a browser"

(* Thrown values: an Error with its message, or a value that is no Error   *)
(* (the ProgressEvent a FileReader's error event carries).                 *)
Err(m) == [isError |-> TRUE, message |-> m]
ProgressEvent == [isError |-> FALSE, message |-> ""]
NetworkError == Err("Failed to fetch")
ApiError == Err("ApiError: API key not valid")

(* The catch block: the message handed to setError. *)
CatchMessage(err) ==
  IF variant = "index.tsx"
  THEN IF err.isError THEN err.message ELSE UnexpectedMessage
  ELSE IF err.isError
       THEN IF err.message = KeyMustBeSet
            THEN ConfigurationErrorMessage
            ELSE err.message
       ELSE UnexpectedMessage

(* new GoogleGenAI({apiKey}) at render (index.tsx): the browser client     *)
(* throws when the key is undefined, and rendering App fails.              *)
RenderThrows(v, key) == v = "index.tsx" /\ key = undefined

(* Request parts *)
Prompt == <<"prompt", variant>>
TextPart(p) == <<"text", p, "">>
InlinePart(data, mimeType) == <<"inlineData", data, mimeType>>

(* FileReader.readAsDataURL: "data:<type>;base64,<payload>", kept as the   *)
(* pieces a split(',') yields.                                             *)
Base64(content) == <<"b64", content[2]>>
readAsDataURL(f) == << <<"data:", FileType(f), ";base64">>, Base64(FileContent(f)) >>
fileToGenerativePart(f) == InlinePart(readAsDataURL(f)[2], FileType(f))

(* The order of the three `if (xFile) parts.push(await ...)` statements. *)
SlotOrderSwapped == <<"pl", "ci", "bl">>
SlotOrder == <<"ci", "pl", "bl">>
IndexOf(s) == CHOOSE i \in 1..Len(SlotOrder) : SlotOrder[i] = s
PendingFrom(files, k) == {i \in k..Len(SlotOrder) : Truthy(files[SlotOrder[i]])}
NextPc(files, k) ==
  IF PendingFrom(files, k) = {}
  THEN "call"
  ELSE SlotOrder[CHOOSE i \in PendingFrom(files, k) :
                   \A j \in PendingFrom(files, k) : i <= j]

Status(m) == IF variant = "part_000" THEN m ELSE ""

(* The button's and the handler's conditions *)
anyFileUploaded == Truthy(ciFile) \/ Truthy(plFile) \/ Truthy(blFile)
analyzeDisabledIgnoringLoading == ~anyFileUploaded
analyzeDisabled == ~anyFileUploaded \/ loading
NoFileSelectedNever(ci, pl, bl) == FALSE
NoFileSelected(ci, pl, bl) == Falsy(ci) /\ Falsy(pl) /\ Falsy(bl)

-----------------------------------------------------------------------------
Init ==
  /\ variant \in Variants
  /\ API_KEY \in Keys
  /\ mounted = ~RenderThrows(variant, API_KEY)
  /\ ciFile = null /\ plFile = null /\ blFile = null
  /\ loading = FALSE
  /\ statusMessage = ""
  /\ result = ""
  /\ error = ""
  /\ copyButtonText = "Copy"
  /\ runs = <<>>
  /\ timers = 0
  /\ clipboard = ""

env == <<variant, API_KEY, mounted>>
slots == <<ciFile, plFile, blFile>>

RemoveAt(q, i) == SubSeq(q, 1, i - 1) \o SubSeq(q, i + 1, Len(q))

(* handleFileChange(e, setter): fl is e.target.files, s names the setter.  *)
(* e.target.files of a file input is a FileList, never null; files[0] of   *)
(* an empty list is undefined.                                             *)
FilesPresent(fl) ==
  IF variant = "index.tsx" THEN TRUE ELSE Len(fl) > 0
First(fl) == IF Len(fl) > 0 THEN fl[1] ELSE undefined

handleFileChangeKeepingError(s, fl) ==
  /\ IF FilesPresent(fl)
     THEN /\ ciFile' = IF s = "ci" THEN First(fl) ELSE ciFile
          /\ plFile' = IF s = "pl" THEN First(fl) ELSE plFile
          /\ blFile' = IF s = "bl" THEN First(fl) ELSE blFile
          /\ result' = ""
          /\ UNCHANGED error
     ELSE UNCHANGED <<slots, result, error>>
  /\ UNCHANGED <<env, loading, statusMessage, copyButtonText, runs, timers,
                 clipboard>>

handleFileChange(s, fl) ==
  /\ IF FilesPresent(fl)
     THEN /\ ciFile' = IF s = "ci" THEN First(fl) ELSE ciFile
          /\ plFile' = IF s = "pl" THEN First(fl) ELSE plFile
          /\ blFile' = IF s = "bl" THEN First(fl) ELSE blFile
          /\ result' = ""
          /\ error' = ""
     ELSE UNCHANGED <<slots, result, error>>
  /\ UNCHANGED <<env, loading, statusMessage, copyButtonText, runs, timers,
                 clipboard>>

(* The finally block of handleAnalyze. *)
Finally ==
  /\ loading' = FALSE
  /\ statusMessage' = ""

(* handleAnalyze from its k-th push statement on, for a run with closure   *)
(* files and the parts pushed so far: the run suspends at the next read    *)
(* (pc names the slot), or, with no populated slot left, it issues         *)
(* generateContent with the parts and suspends there (pc = "call").        *)
Suspended(files, parts, k) ==
  [pc |-> NextPc(files, k), files |-> files, parts |-> parts]
StatusAt(pc) ==
  IF pc = "call"
  THEN Status("Analyzing documents with Gemini...")
  ELSE Status("Reading file data...")

(* handleAnalyze, up to its first await. *)
handleAnalyze ==
  IF NoFileSelected(ciFile, plFile, blFile)
  THEN /\ error' = NoFileMessage
       /\ UNCHANGED <<env, slots, loading, statusMessage, result,
                      copyButtonText, runs, timers, clipboard>>
  ELSE /\ Len(runs) < MaxRuns
       /\ result' = ""
       /\ copyButtonText' = "Copy"
       /\ IF variant = "part_000" /\ Falsy(API_KEY)
          THEN /\ error' = CatchMessage(Err(KeyMissingMessage))
               /\ Finally
               /\ UNCHANGED runs
          ELSE LET r == Suspended(Closure, <<TextPart(Prompt)>>, 1) IN
               /\ error' = ""
               /\ loading' = TRUE
               /\ runs' = Append(runs, r)
               /\ statusMessage' = StatusAt(r.pc)
       /\ UNCHANGED <<env, slots, timers, clipboard>>

(* The FileReader of the i-th run ends its read of the closure's file for  *)
(* slot pc.  loaded: the read succeeded.  On a failed read reader.result   *)
(* is null and the reader fires error, then loadend.                       *)
(*  index.tsx: only onloadend is set; null.split throws inside the         *)
(*    callback, resolve is never called and the await never returns.       *)
(*  part_000: onerror = reject runs first; the rejection (a ProgressEvent) *)
(*    reaches the catch block.                                             *)
onloadend(i, loaded) ==
  LET r == runs[i] IN
  /\ r.pc \in Slots
  /\ IF loaded
     THEN LET n == Suspended(r.files,
                             Append(r.parts, fileToGenerativePart(r.files[r.pc])),
                             IndexOf(r.pc) + 1) IN
          /\ runs' = [runs EXCEPT ![i] = n]
          /\ statusMessage' = StatusAt(n.pc)
          /\ UNCHANGED <<loading, error>>
     ELSE IF variant = "index.tsx"
          THEN /\ runs' = [runs EXCEPT ![i].pc = "hung"]
               /\ UNCHANGED <<loading, statusMessage, error>>
          ELSE /\ runs' = RemoveAt(runs, i)
               /\ error' = CatchMessage(ProgressEvent)
               /\ Finally
  /\ UNCHANGED <<env, slots, result, copyButtonText, timers, clipboard>>

(* What generateContent can settle with: a response whose text is a text,  *)
(* empty or absent, or a rejection.  A key the service does not accept     *)
(* gets a rejection.                                                       *)
Fulfilled(t) == [ok |-> TRUE, text |-> t, err |-> Err("")]
Rejected(e) == [ok |-> FALSE, text |-> "", err |-> e]
Rejections == {Rejected(NetworkError), Rejected(ApiError)}
Settlements ==
  IF API_KEY = "key"
  THEN {Fulfilled(t) : t \in Texts \cup {"", undefined}} \cup Rejections
  ELSE Rejections

(* handleAnalyze after `await ai.models.generateContent(...)`. *)
afterGenerateContent(i, s) ==
  /\ runs[i].pc = "call"
  /\ runs' = RemoveAt(runs, i)
  /\ Finally
  /\ IF s.ok
     THEN IF variant = "part_000" /\ Falsy(s.text)
          THEN /\ error' = CatchMessage(Err(EmptyResponseMessage))
               /\ UNCHANGED result
          ELSE /\ result' = s.text
               /\ UNCHANGED error
     ELSE /\ error' = CatchMessage(s.err)
          /\ UNCHANGED result
  /\ UNCHANGED <<env, slots, copyButtonText, timers, clipboard>>

(* handleCopy *)
handleCopyWithoutTimeout ==
  /\ IF Falsy(result)
     THEN UNCHANGED <<clipboard, copyButtonText, timers>>
     ELSE /\ clipboard' = result
          /\ copyButtonText' = "Copied!"
          /\ UNCHANGED timers
  /\ UNCHANGED <<env, slots, loading, statusMessage, result, error, runs>>

handleCopy ==
  /\ IF Falsy(result)
     THEN UNCHANGED <<clipboard, copyButtonText, timers>>
     ELSE /\ timers < MaxTimers
          /\ clipboard' = result
          /\ copyButtonText' = "Copied!"
          /\ timers' = timers + 1
  /\ UNCHANGED <<env, slots, loading, statusMessage, result, error, runs>>

(* The callback of setTimeout(() => setCopyButtonText('Copy'), 2000). *)
revertCopyButtonText ==
  /\ copyButtonText' = "Copy"
  /\ UNCHANGED <<env, slots, loading, statusMessage, result, error, runs,
                 clipboard>>

-----------------------------------------------------------------------------
(* Events *)

FileLists == {<<>>} \cup {<<f>> : f \in Files}

(* A change event of one of the three file inputs: a file was chosen, or   *)
(* the dialog was cancelled on an input that held a file (empty list).     *)
ChangeFile ==
  /\ mounted
  /\ \E s \in Slots : \E fl \in FileLists :
       /\ (fl = <<>> => Truthy(Closure[s]))
       /\ handleFileChange(s, fl)

(* A click on the analyze button, which is rendered enabled. *)
ClickAnalyze ==
  /\ mounted
  /\ ~analyzeDisabled
  /\ handleAnalyze

(* handleAnalyze invoked while the button is disabled for want of a file   *)
(* (the handler's own no-file check is what then decides).                 *)
TriggerWithoutFile ==
  /\ mounted
  /\ ~anyFileUploaded
  /\ ~loading
  /\ handleAnalyze

(* A click on the copy button, rendered only with a result. *)
ClickCopy ==
  /\ mounted
  /\ Truthy(result)
  /\ handleCopy

(* handleCopy invoked while no result is rendered. *)
CopyWithoutResult ==
  /\ mounted
  /\ Falsy(result)
  /\ handleCopy

FileReaderSettles ==
  \E i \in DOMAIN runs : \E loaded \in BOOLEAN : onloadend(i, loaded)

ModelCallSettles ==
  \E i \in DOMAIN runs : \E s \in Settlements : afterGenerateContent(i, s)

TimerFires ==
  /\ timers > 0
  /\ timers' = timers - 1
  /\ revertCopyButtonText

Next ==
  \/ ChangeFile
  \/ ClickAnalyze
  \/ TriggerWithoutFile
  \/ ClickCopy
  \/ CopyWithoutResult
  \/ FileReaderSettles
  \/ ModelCallSettles
  \/ TimerFires

Spec == Init /\ [][Next]_vars

(* Every read ends with loadend and every model call settles. *)
LiveSpec ==
  /\ Init /\ [][Next]_vars
  /\ WF_vars(FileReaderSettles)
  /\ WF_vars(ModelCallSettles)

(* The revision of src/unnamed/part_000 alone. *)
InitPart000 == Init /\ variant = "part_000"
SpecPart000 == InitPart000 /\ [][Next]_vars
LivePart000 ==
  /\ SpecPart000
  /\ WF_vars(FileReaderSettles)
  /\ WF_vars(ModelCallSettles)

-----------------------------------------------------------------------------
(* Properties *)

AllTexts == Texts \cup {"", undefined}
Empty(x) == Falsy(x)
SameSelection(a, b) ==
  \A s \in Slots : (Empty(a[s]) /\ Empty(b[s])) \/ a[s] = b[s]

(* C1: at most one handleAnalyze run is outstanding; exactly while a run   *)
(* is outstanding (reading, awaiting the model, or stuck) loading is true  *)
(* and the analyze button is disabled.                                     *)
C1_OneOutstanding ==
  /\ Len(runs) <= 1
  /\ loading <=> runs # <<>>
  /\ runs # <<>> => analyzeDisabled

C1_Witness ==
  /\ Len(runs) = 1
  /\ runs[1].pc = "call"
  /\ ~SameSelection(runs[1].files, Closure)
  /\ timers > 0
  /\ loading

(* C2: every attempt that sets loading to true eventually sets it back to  *)
(* false, given that every read ends and every model call settles.         *)
C2_AsClaimed == loading ~> ~loading

EncodedPart(f) == <<"inlineData", <<"b64", f>>, FileType(f)>>
PartOf(files, s) == IF Empty(files[s]) THEN <<>> ELSE <<EncodedPart(files[s])>>
ExpectedParts(files) ==
  <<TextPart(Prompt)>> \o PartOf(files, "ci") \o PartOf(files, "pl")
    \o PartOf(files, "bl")

C4_PartsInSlotOrder ==
  /\ [](\A i \in DOMAIN runs :
          runs[i].pc = "call" => runs[i].parts = ExpectedParts(runs[i].files))
  /\ [][Len(runs') > Len(runs) =>
          SameSelection(runs'[Len(runs')].files, Closure)]_vars

C4_Witness ==
  /\ Len(runs) = 1
  /\ runs[1].pc = "call"
  /\ Empty(runs[1].files.ci)
  /\ Len(runs[1].parts) = 3
  /\ runs[1].files.pl # runs[1].files.bl
  /\ Truthy(ciFile)

(* C5: a response with non-empty text is stored verbatim with no error; a  *)
(* response with empty or absent text sets an error and no result.         *)
C5_AsClaimed ==
  [][\A i \in DOMAIN runs : \A t \in AllTexts :
       afterGenerateContent(i, Fulfilled(t)) =>
         IF Truthy(t)
         THEN result' = t /\ error' = ""
         ELSE Truthy(error') /\ Falsy(result')]_vars

(* C6: with the API key absent no request reaches the model, and every     *)
(* attempt with a populated slot ends with a configuration error that is   *)
(* not a transport error's message, no result and loading false.           *)
AttemptEnds ==
  \/ ClickAnalyze /\ runs' = runs
  \/ Len(runs') < Len(runs)
ConfigurationMessages == {KeyMissingMessage, ConfigurationErrorMessage}
TransportMessages == {CatchMessage(s.err) : s \in Rejections}

C6_AsClaimed ==
  /\ [](Falsy(API_KEY) => \A i \in DOMAIN runs : runs[i].pc # "call")
  /\ [][Falsy(API_KEY) /\ AttemptEnds =>
          /\ error' \in ConfigurationMessages \ TransportMessages
          /\ Falsy(result')
          /\ ~loading']_vars

(* C7: right after a file is selected in any slot, result and error are    *)
(* both empty.                                                             *)
C7_SelectionClears ==
  [][(\E s \in Slots : \E f \in Files : handleFileChange(s, <<f>>)) =>
       result' = "" /\ error' = ""]_vars

C7_Witness ==
  /\ Len(runs) = 1
  /\ ~SameSelection(runs[1].files, Closure)
  /\ result = ""
  /\ error = ""

(* C8: slots start empty; a change event changes only its own slot; a     *)
(* populated slot never becomes empty again.                               *)
C8_AsClaimed ==
  /\ \A s \in Slots : Closure[s] = null
  /\ [][/\ \A s \in Slots : Truthy(Closure[s]) => Truthy(Closure'[s])
        /\ \A s \in Slots : \A fl \in FileLists :
             handleFileChange(s, fl) =>
               \A o \in Slots \ {s} : Closure'[o] = Closure[o]]_vars

(* C9: a copy with a result on display writes that result to the           *)
(* clipboard, shows 'Copied!' and starts one revert timer; a fired timer   *)
(* shows 'Copy'; a copy without a result changes nothing; with no timer    *)
(* pending the label is 'Copy'.                                            *)
C9_CopyAndRevert ==
  /\ [](timers = 0 => copyButtonText = "Copy")
  /\ [][/\ ClickCopy =>
             /\ clipboard' = result
             /\ copyButtonText' = "Copied!"
             /\ timers' = timers + 1
        /\ CopyWithoutResult => UNCHANGED vars
        /\ TimerFires => copyButtonText' = "Copy"]_vars

C9_Witness ==
  /\ timers = 0
  /\ copyButtonText = "Copy"
  /\ clipboard \in Texts
  /\ Truthy(result)
  /\ clipboard # result

(* C10: a result on display is the response to a request built from the    *)
(* files now in the slots: it is set only by a request built from them,    *)
(* and it stays only while they stay.                                      *)
C10_AsClaimed ==
  [][Truthy(result') =>
       IF result' = result
       THEN slots' = slots
       ELSE \E i \in DOMAIN runs :
              runs[i].pc = "call" /\ SameSelection(runs[i].files, Closure')]_vars

====
